---- MODULE Spec2Model ----
(***************************************************************************)
(* deCONZ binary sensor platform                                           *)
(* (homeassistant/components/deconz/binary_sensor.py).                     *)
(*                                                                         *)
(* The model covers the description table, the unique-id migration, the    *)
(* discovery callback registered with the gateway and the attribute        *)
(* property of the entity wrapper.                                         *)
(*                                                                         *)
(* Strings that the code builds or takes apart (unique ids) are sequences  *)
(* of tokens: an f-string is a concatenation of token sequences and "-" is *)
(* a token of its own, so that str.partition("-") is a search for the      *)
(* first "-" token.  Optional values are None or a one-element tuple.      *)
(***************************************************************************)
EXTENDS Integers, Sequences, FiniteSets, TLC

VARIABLES
    sensors,     \* gateway.api.sensors: sensor id -> pydeconz sensor object
    registry,    \* entity registry, (binary_sensor, deconz): entity_id -> unique id
    added,       \* the entities handed to async_add_entities, in order
    calls,       \* the calls the last run of async_add_sensor made, in order
    discovered,  \* sensor id -> number of runs of async_add_sensor on it
    last,        \* sensor id of the last run of async_add_sensor
    lastRead     \* result of the last read of extra_state_attributes

vars == <<sensors, registry, added, calls, discovered, last, lastRead>>

----------------------------------------------------------------------------
(* Bounds *)

\* Runs of async_add_sensor in one behaviour.
MaxCalls == 2

\* Entities in the entity registry when the platform is set up.
MaxRegistered == 2

----------------------------------------------------------------------------
(* Optional values *)

None == <<>>

Some(v) == <<v>>

Bools == {None, Some(TRUE), Some(FALSE)}

----------------------------------------------------------------------------
(* Constants of the platform *)

ATTR_ON == "on"

ATTR_TEMPERATURE == "temperature"

ATTR_DARK == "dark"

ATTR_ORIENTATION == "orientation"

ATTR_TILTANGLE == "tiltangle"

ATTR_VIBRATIONSTRENGTH == "vibrationstrength"

PROVIDES_EXTRA_ATTRIBUTES ==
    {"alarm", "carbon_monoxide", "fire", "flag", "open", "presence",
     "vibration", "water"}

\* The pydeconz sensor classes the table filters on; "SensorBase" stands for
\* every other sensor class of the gateway client.
SensorClasses ==
    {"Alarm", "CarbonMonoxide", "Fire", "GenericFlag", "OpenClose", "Presence",
     "Vibration", "Water", "SensorBase"}

\* instance_check: type[T] | None = None
NoCheck == "None"

\* DeconzBinarySensorDescription; value_fn names the attribute the lambda reads.
Description(key, update_key, attribute, check, name, old, class, category) ==
    [key |-> key, update_key |-> update_key, value_fn |-> attribute,
     instance_check |-> check, name_suffix |-> name,
     old_unique_id_suffix |-> old, device_class |-> class,
     entity_category |-> category]

\* The table with the carbon monoxide entry carrying the class of the entry
\* above it.
ENTITY_DESCRIPTIONS_copied_class ==
    << Description("alarm", "alarm", "alarm", "Alarm", "", "", "safety", "None"),
       Description("carbon_monoxide", "carbonmonoxide", "carbon_monoxide",
                   "CarbonMonoxide", "", "", "safety", "None"),
       Description("fire", "fire", "fire", "Fire", "", "", "smoke", "None"),
       Description("in_test_mode", "test", "in_test_mode", "Fire", "Test Mode",
                   "test mode", "smoke", "diagnostic"),
       Description("flag", "flag", "flag", "GenericFlag", "", "", "None", "None"),
       Description("open", "open", "open", "OpenClose", "", "", "opening", "None"),
       Description("presence", "presence", "presence", "Presence", "", "",
                   "motion", "None"),
       Description("vibration", "vibration", "vibration", "Vibration", "", "",
                   "vibration", "None"),
       Description("water", "water", "water", "Water", "", "", "moisture", "None"),
       Description("tampered", "tampered", "tampered", NoCheck, "Tampered",
                   "tampered", "tamper", "diagnostic"),
       Description("low_battery", "lowbattery", "low_battery", NoCheck,
                   "Low Battery", "low battery", "battery", "diagnostic") >>

ENTITY_DESCRIPTIONS ==
    << Description("alarm", "alarm", "alarm", "Alarm", "", "", "safety", "None"),
       Description("carbon_monoxide", "carbonmonoxide", "carbon_monoxide",
                   "CarbonMonoxide", "", "", "carbon_monoxide", "None"),
       Description("fire", "fire", "fire", "Fire", "", "", "smoke", "None"),
       Description("in_test_mode", "test", "in_test_mode", "Fire", "Test Mode",
                   "test mode", "smoke", "diagnostic"),
       Description("flag", "flag", "flag", "GenericFlag", "", "", "None", "None"),
       Description("open", "open", "open", "OpenClose", "", "", "opening", "None"),
       Description("presence", "presence", "presence", "Presence", "", "",
                   "motion", "None"),
       Description("vibration", "vibration", "vibration", "Vibration", "", "",
                   "vibration", "None"),
       Description("water", "water", "water", "Water", "", "", "moisture", "None"),
       Description("tampered", "tampered", "tampered", NoCheck, "Tampered",
                   "tampered", "tamper", "diagnostic"),
       Description("low_battery", "lowbattery", "low_battery", NoCheck,
                   "Low Battery", "low battery", "battery", "diagnostic") >>

\* value_fn=lambda device: device.<attribute>
value_fn(description, device) == device[description.value_fn]

isinstance(device, class) == device.class = class

----------------------------------------------------------------------------
(* Unique ids *)

\* Tokens that are MAC addresses: the only tokens that hold colons (seven).
MacTokens == {"00:00:00:00:00:00:00:01"}

Colons(token) == IF token \in MacTokens THEN 7 ELSE 0

RECURSIVE CountColons(_)
CountColons(s) == IF s = <<>> THEN 0 ELSE Colons(Head(s)) + CountColons(Tail(s))

\* str.partition("-")[0]: the part before the first "-", the whole string
\* when there is none.
RECURSIVE PartitionHead(_)
PartitionHead(s) ==
    IF s = <<>> \/ Head(s) = "-" THEN <<>>
    ELSE <<Head(s)>> \o PartitionHead(Tail(s))

\* util.serial_from_unique_id; formatted into an f-string, None reads "None".
serial_from_unique_id(unique_id) ==
    IF unique_id = <<>> \/ CountColons(unique_id) # 7 THEN <<"None">>
    ELSE PartitionHead(unique_id)

\* f"{a}-{b}"
Dash(a, b) == a \o <<"-">> \o b

----------------------------------------------------------------------------
(* Entity registry *)

NoEntity == "None"

\* er.async_get_entity_id(DOMAIN, DECONZ_DOMAIN, unique_id)
async_get_entity_id(ent_reg, unique_id) ==
    IF \E e \in DOMAIN ent_reg : ent_reg[e] = unique_id
    THEN CHOOSE e \in DOMAIN ent_reg : ent_reg[e] = unique_id
    ELSE NoEntity

\* er.async_update_entity(entity_id, new_unique_id=...)
async_update_entity(ent_reg, entity_id, new_unique_id) ==
    [ent_reg EXCEPT ![entity_id] = new_unique_id]

\* async_update_unique_id without the early return on a registered new id.
async_update_unique_id_no_return(ent_reg, unique_id, description) ==
    LET new_unique_id == Dash(unique_id, <<description.key>>)
        old_unique_id ==
            IF description.old_unique_id_suffix # ""
            THEN Dash(serial_from_unique_id(unique_id),
                      <<description.old_unique_id_suffix>>)
            ELSE unique_id
        entity_id == async_get_entity_id(ent_reg, old_unique_id)
    IN  IF entity_id # NoEntity
        THEN [registry |-> async_update_entity(ent_reg, entity_id, new_unique_id),
              renamed |-> entity_id]
        ELSE [registry |-> ent_reg, renamed |-> NoEntity]

\* async_update_unique_id that never takes the legacy form of the old id.
async_update_unique_id_no_legacy(ent_reg, unique_id, description) ==
    LET new_unique_id == Dash(unique_id, <<description.key>>)
        entity_id == async_get_entity_id(ent_reg, unique_id)
    IN  IF async_get_entity_id(ent_reg, new_unique_id) # NoEntity
        THEN [registry |-> ent_reg, renamed |-> NoEntity]
        ELSE IF entity_id # NoEntity
        THEN [registry |-> async_update_entity(ent_reg, entity_id, new_unique_id),
              renamed |-> entity_id]
        ELSE [registry |-> ent_reg, renamed |-> NoEntity]

\* async_update_unique_id that always takes the legacy form of the old id.
async_update_unique_id_always_legacy(ent_reg, unique_id, description) ==
    LET new_unique_id == Dash(unique_id, <<description.key>>)
        old_unique_id == Dash(serial_from_unique_id(unique_id),
                              <<description.old_unique_id_suffix>>)
        entity_id == async_get_entity_id(ent_reg, old_unique_id)
    IN  IF async_get_entity_id(ent_reg, new_unique_id) # NoEntity
        THEN [registry |-> ent_reg, renamed |-> NoEntity]
        ELSE IF entity_id # NoEntity
        THEN [registry |-> async_update_entity(ent_reg, entity_id, new_unique_id),
              renamed |-> entity_id]
        ELSE [registry |-> ent_reg, renamed |-> NoEntity]

\* async_update_unique_id: the registry it leaves and the entity it renamed.
async_update_unique_id(ent_reg, unique_id, description) ==
    LET new_unique_id == Dash(unique_id, <<description.key>>)
        old_unique_id ==
            IF description.old_unique_id_suffix # ""
            THEN Dash(serial_from_unique_id(unique_id),
                      <<description.old_unique_id_suffix>>)
            ELSE unique_id
        entity_id == async_get_entity_id(ent_reg, old_unique_id)
    IN  IF async_get_entity_id(ent_reg, new_unique_id) # NoEntity
        THEN [registry |-> ent_reg, renamed |-> NoEntity]
        ELSE IF entity_id # NoEntity
        THEN [registry |-> async_update_entity(ent_reg, entity_id, new_unique_id),
              renamed |-> entity_id]
        ELSE [registry |-> ent_reg, renamed |-> NoEntity]

----------------------------------------------------------------------------
(* Entity wrapper *)

\* DeconzBinarySensor.__init__ taking the suffix of the unique id from the
\* device class instead of the key.
DeconzBinarySensor_class_suffix(sensor_id, description) ==
    [device |-> sensor_id,
     entity_description |-> description,
     unique_id_suffix |-> description.device_class,
     update_key |-> description.update_key,
     name_suffix |-> IF description.name_suffix # ""
                     THEN Some(description.name_suffix) ELSE None]

\* DeconzBinarySensor.__init__
DeconzBinarySensor(sensor_id, description) ==
    [device |-> sensor_id,
     entity_description |-> description,
     unique_id_suffix |-> description.key,
     update_key |-> description.update_key,
     name_suffix |-> IF description.name_suffix # ""
                     THEN Some(description.name_suffix) ELSE None]

\* DeconzBase.unique_id: f"{device.unique_id}-{unique_id_suffix}"
unique_id(entity, devices) ==
    Dash(devices[entity.device].unique_id, <<entity.unique_id_suffix>>)

\* BinarySensorEntity.device_class, taken from the description
device_class(entity) == entity.entity_description.device_class

\* DeconzBinarySensor.is_on
is_on(entity, devices) == value_fn(entity.entity_description, devices[entity.device])

\* extra_state_attributes with the vibration details left out when null.
extra_state_attributes_vibration_non_null(entity, devices) ==
    LET device == devices[entity.device]
        on == IF device.on # None THEN ATTR_ON :> device.on ELSE <<>>
        temperature ==
            IF device.internal_temperature # None
            THEN ATTR_TEMPERATURE :> device.internal_temperature ELSE <<>>
        by_class ==
            IF isinstance(device, "Presence")
            THEN IF device.dark # None THEN ATTR_DARK :> device.dark ELSE <<>>
            ELSE IF isinstance(device, "Vibration")
            THEN (IF device.orientation # None
                  THEN ATTR_ORIENTATION :> device.orientation ELSE <<>>)
                 @@ (IF device.tilt_angle # None
                     THEN ATTR_TILTANGLE :> device.tilt_angle ELSE <<>>)
                 @@ (IF device.vibration_strength # None
                     THEN ATTR_VIBRATIONSTRENGTH :> device.vibration_strength
                     ELSE <<>>)
            ELSE <<>>
    IN  IF entity.entity_description.key \notin PROVIDES_EXTRA_ATTRIBUTES
        THEN <<>>
        ELSE on @@ temperature @@ by_class

\* extra_state_attributes with the ambient-light flag always copied.
extra_state_attributes_dark_always(entity, devices) ==
    LET device == devices[entity.device]
        on == IF device.on # None THEN ATTR_ON :> device.on ELSE <<>>
        temperature ==
            IF device.internal_temperature # None
            THEN ATTR_TEMPERATURE :> device.internal_temperature ELSE <<>>
        by_class ==
            IF isinstance(device, "Presence")
            THEN ATTR_DARK :> device.dark
            ELSE IF isinstance(device, "Vibration")
            THEN (ATTR_ORIENTATION :> device.orientation)
                 @@ (ATTR_TILTANGLE :> device.tilt_angle)
                 @@ (ATTR_VIBRATIONSTRENGTH :> device.vibration_strength)
            ELSE <<>>
    IN  IF entity.entity_description.key \notin PROVIDES_EXTRA_ATTRIBUTES
        THEN <<>>
        ELSE on @@ temperature @@ by_class

\* DeconzBinarySensor.extra_state_attributes: a dict, as a function on its keys
extra_state_attributes(entity, devices) ==
    LET device == devices[entity.device]
        on == IF device.on # None THEN ATTR_ON :> device.on ELSE <<>>
        temperature ==
            IF device.internal_temperature # None
            THEN ATTR_TEMPERATURE :> device.internal_temperature ELSE <<>>
        by_class ==
            IF isinstance(device, "Presence")
            THEN IF device.dark # None THEN ATTR_DARK :> device.dark ELSE <<>>
            ELSE IF isinstance(device, "Vibration")
            THEN (ATTR_ORIENTATION :> device.orientation)
                 @@ (ATTR_TILTANGLE :> device.tilt_angle)
                 @@ (ATTR_VIBRATIONSTRENGTH :> device.vibration_strength)
            ELSE <<>>
    IN  IF entity.entity_description.key \notin PROVIDES_EXTRA_ATTRIBUTES
        THEN <<>>
        ELSE on @@ temperature @@ by_class

----------------------------------------------------------------------------
(* Discovery callback *)

UpdateCall(description, unique, before, migrated) ==
    [op |-> "async_update_unique_id", key |-> description.key,
     unique_id |-> unique, before |-> before, after |-> migrated.registry,
     renamed |-> migrated.renamed]

AddCall(description, entity) ==
    [op |-> "async_add_entities", key |-> description.key, entity |-> entity]

\* The condition of the `continue` testing the value for truth.
Skipped_falsy(description, sensor) ==
    \/ /\ description.instance_check # NoCheck
       /\ ~isinstance(sensor, description.instance_check)
    \/ value_fn(description, sensor) \in {None, Some(FALSE)}

\* The condition of the `continue` in async_add_sensor.
Skipped(description, sensor) ==
    \/ /\ description.instance_check # NoCheck
       /\ ~isinstance(sensor, description.instance_check)
    \/ value_fn(description, sensor) = None

\* The loop body migrating the unique id before the `continue`.
LoopBody_migrate_first(sensor_id, sensor, description, st) ==
    LET migrated == async_update_unique_id(st.registry, sensor.unique_id,
                                           description)
        entity == DeconzBinarySensor(sensor_id, description)
    IN  IF Skipped(description, sensor)
        THEN [st EXCEPT !.registry = migrated.registry]
        ELSE [registry |-> migrated.registry,
              added |-> Append(st.added, entity),
              calls |-> st.calls
                        \o << UpdateCall(description, sensor.unique_id,
                                         st.registry, migrated),
                              AddCall(description, entity) >>]

\* One pass of the loop body of async_add_sensor over st = the registry, the
\* entities added and the calls made so far.
LoopBody(sensor_id, sensor, description, st) ==
    IF Skipped(description, sensor) THEN st
    ELSE LET migrated == async_update_unique_id(st.registry, sensor.unique_id,
                                                description)
             entity == DeconzBinarySensor(sensor_id, description)
         IN  [registry |-> migrated.registry,
              added |-> Append(st.added, entity),
              calls |-> st.calls
                        \o << UpdateCall(description, sensor.unique_id,
                                         st.registry, migrated),
                              AddCall(description, entity) >>]

\* for description in ENTITY_DESCRIPTIONS, from index i on
RECURSIVE Loop(_, _, _, _)
Loop(i, sensor_id, sensor, st) ==
    IF i > Len(ENTITY_DESCRIPTIONS) THEN st
    ELSE Loop(i + 1, sensor_id, sensor,
              LoopBody(sensor_id, sensor, ENTITY_DESCRIPTIONS[i], st))

\* async_add_sensor(_, sensor_id)
async_add_sensor(sensor_id) ==
    LET done == Loop(1, sensor_id, sensors[sensor_id],
                     [registry |-> registry, added |-> added, calls |-> <<>>])
    IN  /\ registry' = done.registry
        /\ added' = done.added
        /\ calls' = done.calls

----------------------------------------------------------------------------
(* Inputs *)

\* Unique ids of gateway sensors: two endpoints of one device, a device that
\* reports its bare MAC address, and a sensor without a MAC address.
UID_A == <<"00:00:00:00:00:00:00:01", "-", "01", "-", "0500">>

UID_B == <<"00:00:00:00:00:00:00:01", "-", "02", "-", "0500">>

UID_MAC == <<"00:00:00:00:00:00:00:01">>

UID_CLIP == <<"clip", "-", "1">>

\* The attributes every sensor class has.
BaseAttributes(F, On, Temp) ==
    [tampered : F, low_battery : F, on : On, internal_temperature : Temp]

\* The attributes of one sensor class; B, F, Dark and Vib are the values
\* drawn for its state, its test-mode flag, its ambient-light flag and its
\* vibration details.
ClassAttributes(class, B, F, Dark, Vib) ==
    CASE class = "Alarm" -> [alarm : B]
      [] class = "CarbonMonoxide" -> [carbon_monoxide : B]
      [] class = "Fire" -> [fire : B, in_test_mode : F]
      [] class = "GenericFlag" -> [flag : B]
      [] class = "OpenClose" -> [open : B]
      [] class = "Presence" -> [presence : B, dark : Dark]
      [] class = "Vibration" ->
            [vibration : B, orientation : Vib, tilt_angle : Vib,
             vibration_strength : Vib]
      [] class = "Water" -> [water : B]
      [] OTHER -> {<<>>}

\* Sensor objects of a class with a unique id.
SensorObjects(class, unique, B, F, On, Temp, Dark, Vib) ==
    { ("class" :> class) @@ ("unique_id" :> unique) @@ base @@ own :
        base \in BaseAttributes(F, On, Temp),
        own \in ClassAttributes(class, B, F, Dark, Vib) }

\* What a sensor reports for a diagnostic flag (tampered, low battery, test
\* mode): nothing, or that the flag is clear.
Flags == {None, Some(FALSE)}

\* Sensors as discovery sees them: every class, every state of the values
\* the table reads; the attribute-only fields are not reported.
DiscoverySensors(unique) ==
    UNION { SensorObjects(class, unique, Bools, Flags, {None}, {None}, {None},
                          {None}) : class \in SensorClasses }

\* The classes of the sensors of a two-sensor gateway.
PairClasses == {"Fire", "OpenClose", "SensorBase"}

\* Sensors that report every value the table reads.
ReportingSensors(unique) ==
    UNION { SensorObjects(class, unique, {Some(TRUE)}, {Some(FALSE)}, {None},
                          {None}, {None}, {None}) : class \in PairClasses }

\* The gateway's sensor collections: one sensor in any state, or two
\* reporting sensors on two endpoints of one device.  The gateway gives each
\* of its sensors a unique id of its own.
Gateways ==
    { "1" :> s :
        s \in UNION { DiscoverySensors(u) : u \in {UID_A, UID_MAC, UID_CLIP} } }
    \cup
    { ("1" :> s) @@ ("2" :> t) :
        s \in ReportingSensors(UID_A),
        t \in ReportingSensors(UID_B) }

\* The descriptions whose instance check a sensor passes.
Applicable(sensor) ==
    { i \in DOMAIN ENTITY_DESCRIPTIONS :
        \/ ENTITY_DESCRIPTIONS[i].instance_check = NoCheck
        \/ isinstance(sensor, ENTITY_DESCRIPTIONS[i].instance_check) }

\* The unique ids an entity registry may hold for a sensor: the id without a
\* suffix, the legacy ids and the ids with the description key.
KnownIds(sensor) ==
    {sensor.unique_id}
    \cup { Dash(serial_from_unique_id(sensor.unique_id),
                <<ENTITY_DESCRIPTIONS[i].old_unique_id_suffix>>) :
             i \in { j \in Applicable(sensor) :
                       ENTITY_DESCRIPTIONS[j].old_unique_id_suffix # "" } }
    \cup { Dash(sensor.unique_id, <<ENTITY_DESCRIPTIONS[i].key>>) :
             i \in Applicable(sensor) }

OtherId == <<"00:00:00:00:00:00:00:02", "-", "01", "-", "0006">>

EntityIds ==
    << "binary_sensor.a", "binary_sensor.b", "binary_sensor.c", "binary_sensor.d" >>

RECURSIVE SubsetsUpTo(_, _)
SubsetsUpTo(S, n) ==
    IF n = 0 THEN {{}}
    ELSE LET smaller == SubsetsUpTo(S, n - 1)
         IN  smaller \cup { T \cup {x} : T \in smaller, x \in S }

\* One registry holding exactly the unique ids of ids, each under one entity.
RegistryOf(ids) ==
    LET n == Cardinality(ids)
        entities == { EntityIds[i] : i \in 1..n }
    IN  CHOOSE reg \in [entities -> ids] : \A id \in ids : \E e \in entities : reg[e] = id

\* The registries of at most MaxRegistered entities over the ids known for
\* the gateway's sensors and one id of another device.
Registries(gateway) ==
    LET ids == UNION { KnownIds(gateway[s]) : s \in DOMAIN gateway } \cup {OtherId}
    IN  { RegistryOf(chosen) : chosen \in SubsetsUpTo(ids, MaxRegistered) }

----------------------------------------------------------------------------
(* Specification *)

NoSensor == "None"

NoRead == [entity |-> 0, attributes |-> <<>>]

Init ==
    /\ sensors \in Gateways
    /\ registry \in Registries(sensors)
    /\ added = <<>>
    /\ calls = <<>>
    /\ discovered = [s \in DOMAIN sensors |-> 0]
    /\ last = NoSensor
    /\ lastRead = NoRead

RECURSIVE Sum(_, _)
Sum(f, S) ==
    IF S = {} THEN 0
    ELSE LET x == CHOOSE y \in S : TRUE IN f[x] + Sum(f, S \ {x})

Runs == Sum(discovered, DOMAIN discovered)

\* The gateway reports sensor sensor_id to the platform's add-device callback.
AddSensor(sensor_id) ==
    /\ Runs < MaxCalls
    /\ async_add_sensor(sensor_id)
    /\ discovered' = [discovered EXCEPT ![sensor_id] = @ + 1]
    /\ last' = sensor_id
    /\ UNCHANGED <<sensors, lastRead>>

Next == \E sensor_id \in DOMAIN sensors : AddSensor(sensor_id)

Spec == Init /\ [][Next]_vars

----------------------------------------------------------------------------
(* Specification of the attribute reads *)

\* The values the gateway reports for the attribute-only fields.
AttributeValues(attribute) ==
    CASE attribute \in {"on", "dark"} -> Bools
      [] attribute = "internal_temperature" -> {None, Some(21)}
      [] attribute = "orientation" -> {None, Some(<<10, 20, 30>>)}
      [] attribute = "tilt_angle" -> {None, Some(83)}
      [] attribute = "vibration_strength" -> {None, Some(114)}

AttributeOnly ==
    {"on", "internal_temperature", "dark", "orientation", "tilt_angle",
     "vibration_strength"}

\* One sensor of any class whose values are reported or not; the
\* attribute-only fields are not reported yet.
AttributeGateways ==
    { "1" :> s :
        s \in UNION { SensorObjects(class, UID_A, {None, Some(TRUE)}, Flags,
                                     {None}, {None}, {None}, {None}) :
                        class \in SensorClasses } }

InitAttributes ==
    /\ sensors \in AttributeGateways
    /\ registry = RegistryOf({})
    /\ added = <<>>
    /\ calls = <<>>
    /\ discovered = [s \in DOMAIN sensors |-> 0]
    /\ last = NoSensor
    /\ lastRead = NoRead

\* The gateway client changes an attribute-only field of a sensor; the last
\* read no longer describes the sensor.
GatewayUpdate(sensor_id, attribute, value) ==
    /\ attribute \in DOMAIN sensors[sensor_id]
    /\ sensors[sensor_id][attribute] # value
    /\ sensors' = [sensors EXCEPT ![sensor_id][attribute] = value]
    /\ lastRead' = NoRead
    /\ UNCHANGED <<registry, added, calls, discovered, last>>

\* The host reads extra_state_attributes of the i-th entity it was handed.
ReadAttributes(i) ==
    /\ lastRead' = [entity |-> i,
                    attributes |-> extra_state_attributes(added[i], sensors)]
    /\ UNCHANGED <<sensors, registry, added, calls, discovered, last>>

NextAttributes ==
    \/ \E sensor_id \in DOMAIN sensors : AddSensor(sensor_id)
    \/ \E sensor_id \in DOMAIN sensors, attribute \in AttributeOnly :
          \E value \in AttributeValues(attribute) :
             GatewayUpdate(sensor_id, attribute, value)
    \/ \E i \in DOMAIN added : ReadAttributes(i)

SpecAttributes == InitAttributes /\ [][NextAttributes]_vars

----------------------------------------------------------------------------
(* Properties *)

Registered(reg, id) == \E e \in DOMAIN reg : reg[e] = id

\* The entities of a list that wrap sensor s under description key `key`.
Wrappers(list, s, key) ==
    { i \in DOMAIN list :
        list[i].device = s /\ list[i].entity_description.key = key }

UpdateCalls == { i \in DOMAIN calls : calls[i].op = "async_update_unique_id" }

DescriptionOf(key) ==
    ENTITY_DESCRIPTIONS[CHOOSE i \in DOMAIN ENTITY_DESCRIPTIONS :
                           ENTITY_DESCRIPTIONS[i].key = key]

\* The sensor kind each description is for; the diagnostic ones are for all.
KindOf ==
    [alarm |-> {"Alarm"}, carbon_monoxide |-> {"CarbonMonoxide"},
     fire |-> {"Fire"}, in_test_mode |-> {"Fire"}, flag |-> {"GenericFlag"},
     open |-> {"OpenClose"}, presence |-> {"Presence"},
     vibration |-> {"Vibration"}, water |-> {"Water"},
     tampered |-> SensorClasses, low_battery |-> SensorClasses]

\* The device classification of each kind.
ClassificationOf ==
    [alarm |-> "safety", carbon_monoxide |-> "carbon_monoxide",
     fire |-> "smoke", in_test_mode |-> "smoke", flag |-> "None",
     open |-> "opening", presence |-> "motion", vibration |-> "vibration",
     water |-> "moisture", tampered |-> "tamper", low_battery |-> "battery"]

\* A description the discovery handler passes over for a sensor: its type
\* filter fails or the value it extracts is null.
PassedOver(description, sensor) ==
    \/ sensor.class \notin KindOf[description.key]
    \/ sensor[description.key] = None

\* C1: for every description of the table, every run of the discovery handler
\* on a sensor of the matching kind whose extracted value is non-null creates
\* exactly one wrapper for that description, and the wrapper carries the
\* device classification of the kind.
C1_OneWrapperWithClassification ==
    \A s \in DOMAIN sensors : \A d \in DOMAIN ENTITY_DESCRIPTIONS :
        LET key == ENTITY_DESCRIPTIONS[d].key IN
        ~PassedOver(ENTITY_DESCRIPTIONS[d], sensors[s]) =>
            /\ Cardinality(Wrappers(added, s, key)) = discovered[s]
            /\ \A i \in Wrappers(added, s, key) :
                  device_class(added[i]) = ClassificationOf[key]

\* A fire sensor reporting all its values, run once: one wrapper for each of
\* fire, in_test_mode, tampered and low_battery.
C1_Witness ==
    \E s \in DOMAIN sensors :
        /\ discovered[s] = 1
        /\ sensors[s].class = "Fire"
        /\ \A key \in {"fire", "in_test_mode", "tampered", "low_battery"} :
              /\ sensors[s][key] # None
              /\ Cardinality(Wrappers(added, s, key)) = 1

\* C3 as stated: in every reachable state there is at most one wrapper per
\* (sensor, description key) pair and any two wrappers have different derived
\* identifiers.
C3_AtMostOneWrapperPerPair ==
    \A i, j \in DOMAIN added :
        i # j =>
            /\ <<added[i].device, added[i].entity_description.key>>
                 # <<added[j].device, added[j].entity_description.key>>
            /\ unique_id(added[i], sensors) # unique_id(added[j], sensors)

\* C3 amended: as long as no sensor was handed to the discovery handler more
\* than once, there is at most one wrapper per (sensor, description key)
\* pair and any two wrappers have different derived identifiers.
C3_AtMostOneWrapperPerPairOnce ==
    (\A s \in DOMAIN sensors : discovered[s] <= 1) =>
        \A i, j \in DOMAIN added :
            i # j =>
                /\ <<added[i].device, added[i].entity_description.key>>
                     # <<added[j].device, added[j].entity_description.key>>
                /\ unique_id(added[i], sensors) # unique_id(added[j], sensors)

\* Two sensors, each discovered once, both wrapped under one description
\* key, and one of them under two keys.
C3_Witness ==
    \E i, j, k \in DOMAIN added :
        /\ added[i].device # added[j].device
        /\ added[i].entity_description.key = added[j].entity_description.key
        /\ added[k].device = added[i].device
        /\ added[k].entity_description.key # added[i].entity_description.key
        /\ \A s \in DOMAIN sensors : discovered[s] = 1

\* C4: for a sensor of any kind the discovery handler creates a tampered
\* wrapper on each run iff the sensor's tampered value is non-null, and a
\* low_battery wrapper iff its low_battery value is non-null.
C4_DiagnosticsForAnyKind ==
    \A s \in DOMAIN sensors : \A key \in {"tampered", "low_battery"} :
        Cardinality(Wrappers(added, s, key))
            = IF sensors[s][key] # None THEN discovered[s] ELSE 0

\* A sensor of none of the filtered kinds, run once, with a tampered value
\* and without a low_battery value.
C4_Witness ==
    \E s \in DOMAIN sensors :
        /\ discovered[s] = 1
        /\ sensors[s].class = "SensorBase"
        /\ sensors[s].tampered = Some(FALSE)
        /\ sensors[s].low_battery = None
        /\ Cardinality(Wrappers(added, s, "tampered")) = 1
        /\ Wrappers(added, s, "low_battery") = {}

\* The identifiers of a call of async_update_unique_id.
NewIdOf(call) == Dash(call.unique_id, <<call.key>>)

LegacyIdOf(call) ==
    Dash(serial_from_unique_id(call.unique_id),
         <<DescriptionOf(call.key).old_unique_id_suffix>>)

\* The call moved the entity registered under `old` to the new id and left
\* every other entry as it was.
Moved(call, old) ==
    \E e \in DOMAIN call.before :
        /\ call.before[e] = old
        /\ DOMAIN call.after = DOMAIN call.before
        /\ call.after[e] = NewIdOf(call)
        /\ ~Registered(call.after, old)
        /\ \A o \in DOMAIN call.before \ {e} : call.after[o] = call.before[o]

LegacyKeys == {"in_test_mode", "tampered", "low_battery"}

\* C7: when async_update_unique_id runs for a description with a legacy
\* suffix, no entity is registered under the new id and one is registered
\* under the legacy id, then afterwards that entity is registered under the
\* new id, none is registered under the legacy id and every other entry of
\* the registry is unchanged.
C7_LegacyEntityRenamed ==
    \A c \in UpdateCalls :
        /\ calls[c].key \in LegacyKeys
        /\ ~Registered(calls[c].before, NewIdOf(calls[c]))
        /\ Registered(calls[c].before, LegacyIdOf(calls[c]))
        => Moved(calls[c], LegacyIdOf(calls[c]))

\* A call for a legacy description that found the legacy entity, next to an
\* entry of another device.
C7_Witness ==
    \E c \in UpdateCalls :
        /\ calls[c].key \in LegacyKeys
        /\ ~Registered(calls[c].before, NewIdOf(calls[c]))
        /\ Registered(calls[c].before, LegacyIdOf(calls[c]))
        /\ Registered(calls[c].before, OtherId)
        /\ Registered(calls[c].after, NewIdOf(calls[c]))

\* C8: when an entity is already registered under the new id,
\* async_update_unique_id leaves the whole registry unchanged, and it never
\* renames onto an id that is registered.
C8_RegisteredNewIdUntouched ==
    \A c \in UpdateCalls :
        /\ Registered(calls[c].before, NewIdOf(calls[c])) =>
              /\ calls[c].after = calls[c].before
              /\ calls[c].renamed = NoEntity
        /\ calls[c].renamed # NoEntity =>
              ~Registered(calls[c].before, NewIdOf(calls[c]))

\* A call that found the new id registered while another entity still held
\* the legacy id.
C8_Witness ==
    \E c \in UpdateCalls :
        /\ calls[c].key \in LegacyKeys
        /\ NewIdOf(calls[c]) # LegacyIdOf(calls[c])
        /\ Registered(calls[c].before, NewIdOf(calls[c]))
        /\ Registered(calls[c].before, LegacyIdOf(calls[c]))
        /\ Registered(calls[c].after, LegacyIdOf(calls[c]))

SuffixlessKeys ==
    {"alarm", "carbon_monoxide", "fire", "flag", "open", "presence",
     "vibration", "water"}

\* C10: when async_update_unique_id runs for a description without legacy
\* suffix and no entity is registered under the new id, an entity registered
\* under the sensor's bare unique id is renamed to the new id and none is
\* registered under the bare id afterwards; at most one description without
\* legacy suffix matches a sensor, so at most one call of a run is for one.
C10_BareEntityRenamed ==
    /\ \A c \in UpdateCalls :
          /\ calls[c].key \in SuffixlessKeys
          /\ ~Registered(calls[c].before, NewIdOf(calls[c]))
          /\ Registered(calls[c].before, calls[c].unique_id)
          => Moved(calls[c], calls[c].unique_id)
    /\ \A s \in DOMAIN sensors :
          Cardinality({ d \in DOMAIN ENTITY_DESCRIPTIONS :
                          /\ ENTITY_DESCRIPTIONS[d].old_unique_id_suffix = ""
                          /\ sensors[s].class
                               \in KindOf[ENTITY_DESCRIPTIONS[d].key] }) <= 1
    /\ Cardinality({ c \in UpdateCalls :
                       DescriptionOf(calls[c].key).old_unique_id_suffix = "" }) <= 1

\* A call for a description without legacy suffix that found the entity of
\* the bare id.
C10_Witness ==
    \E c \in UpdateCalls :
        /\ calls[c].key \in SuffixlessKeys
        /\ ~Registered(calls[c].before, NewIdOf(calls[c]))
        /\ Registered(calls[c].before, calls[c].unique_id)
        /\ Registered(calls[c].after, NewIdOf(calls[c]))
        /\ calls[c].renamed # NoEntity

RegistryUnique ==
    \A e1, e2 \in DOMAIN registry : e1 # e2 => registry[e1] # registry[e2]

\* The step is a run of the discovery handler on sensor s.
RunOn(s) == discovered'[s] = discovered[s] + 1

\* C2: a run of the discovery handler on the sensor of the run before it
\* leaves the registry as that run left it, and no two registered entities
\* ever have one unique id.
C2_MigrationIdempotent ==
    /\ []RegistryUnique
    /\ [][\A s \in DOMAIN sensors :
            last = s /\ RunOn(s) => registry' = registry]_vars

\* After a second run on a sensor whose first run had an entity to rename:
\* the new id of a description it wraps is registered, the old one is not.
C2_Witness ==
    \E s \in DOMAIN sensors :
        /\ discovered[s] = 2
        /\ sensors[s].tampered # None
        /\ Registered(registry, Dash(sensors[s].unique_id, <<"tampered">>))
        /\ ~Registered(registry,
                       Dash(serial_from_unique_id(sensors[s].unique_id),
                            <<"tampered">>))
        /\ \E i \in DOMAIN added :
              added[i].device = s /\ added[i].unique_id_suffix = "tampered"

\* The ids a description's migration is about: the new id and, for a
\* description with a legacy suffix, the legacy id.  A description without
\* legacy suffix has no legacy id; it migrates from the bare unique id of
\* the sensor, which is an id of its own only on a sensor of its kind (on
\* any other sensor the bare id is the one the description of that sensor's
\* kind migrates from).
IdsOf(description, sensor) ==
    {Dash(sensor.unique_id, <<description.key>>)}
    \cup IF description.key \in LegacyKeys
         THEN {Dash(serial_from_unique_id(sensor.unique_id),
                    <<description.old_unique_id_suffix>>)}
         ELSE IF sensor.class \in KindOf[description.key]
         THEN {sensor.unique_id}
         ELSE {}

\* The descriptions the handler does not pass over for a sensor, in table
\* order.
Processed(sensor) ==
    SelectSeq(ENTITY_DESCRIPTIONS, LAMBDA d : ~PassedOver(d, sensor))

\* C9: a run of the discovery handler neither migrates nor wraps a
\* description it passes over: the entries of the registry for its new and
\* old ids stay as they were and no wrapper for it exists afterwards; for
\* the other descriptions, in table order, it migrates the id and then hands
\* over the wrapper.
C9_Run(s) ==
    LET sensor == sensors[s]
        ran == Processed(sensor)
    IN  /\ \A d \in DOMAIN ENTITY_DESCRIPTIONS :
              LET description == ENTITY_DESCRIPTIONS[d]
              IN  PassedOver(description, sensor) =>
                    /\ \A id \in IdsOf(description, sensor) :
                          async_get_entity_id(registry', id)
                            = async_get_entity_id(registry, id)
                    /\ \A c \in DOMAIN calls' : calls'[c].key # description.key
                    /\ Wrappers(added', s, description.key) = {}
        /\ Len(calls') = 2 * Len(ran)
        /\ \A k \in DOMAIN ran :
              /\ calls'[2 * k - 1].op = "async_update_unique_id"
              /\ calls'[2 * k - 1].key = ran[k].key
              /\ calls'[2 * k].op = "async_add_entities"
              /\ calls'[2 * k].key = ran[k].key
              /\ calls'[2 * k].entity.device = s
        /\ added' = added \o [k \in DOMAIN ran |-> calls'[2 * k].entity]

C9_SkipsAndOrder ==
    [][\A s \in DOMAIN sensors : RunOn(s) => C9_Run(s)]_vars

\* After a run on a fire sensor that reports test mode and low battery but
\* neither fire nor tampering, with the legacy entity of the test mode
\* migrated and the entities of the bare id and of the legacy tampered id
\* left where they were.
C9_Witness ==
    /\ last # NoSensor
    /\ sensors[last].class = "Fire"
    /\ sensors[last].fire = None
    /\ sensors[last].tampered = None
    /\ Len(calls) = 4
    /\ calls[1].key = "in_test_mode"
    /\ calls[1].renamed # NoEntity
    /\ calls[3].key = "low_battery"
    /\ \/ Registered(registry, sensors[last].unique_id)
       \/ Registered(registry,
                     Dash(serial_from_unique_id(sensors[last].unique_id),
                          <<"tampered">>))

\* The entity and the sensor of the last read.
ReadEntity == added[lastRead.entity]

ReadDevice == sensors[ReadEntity.device]

IsRead(key, class) ==
    /\ lastRead.entity # 0
    /\ ReadEntity.entity_description.key = key
    /\ ReadDevice.class = class

\* C5: the attributes of the vibration wrapper of a vibration sensor hold
\* the keys orientation, tiltangle and vibrationstrength whatever the fields
\* are, null included, and the on state and the temperature iff their
\* fields are non-null.
C5_VibrationAttributes ==
    IsRead("vibration", "Vibration") =>
        LET attr == lastRead.attributes IN
        /\ {"orientation", "tiltangle", "vibrationstrength"} \subseteq DOMAIN attr
        /\ attr["orientation"] = ReadDevice.orientation
        /\ attr["tiltangle"] = ReadDevice.tilt_angle
        /\ attr["vibrationstrength"] = ReadDevice.vibration_strength
        /\ "on" \in DOMAIN attr <=> ReadDevice.on # None
        /\ "temperature" \in DOMAIN attr <=> ReadDevice.internal_temperature # None

\* A read of a vibration wrapper with a null orientation, a tilt angle and
\* no on state.
C5_Witness ==
    /\ IsRead("vibration", "Vibration")
    /\ ReadDevice.orientation = None
    /\ ReadDevice.tilt_angle # None
    /\ ReadDevice.on = None
    /\ ReadDevice.internal_temperature # None
    /\ lastRead.attributes["orientation"] = None

\* C6: the attributes of the presence wrapper of a presence sensor hold the
\* dark attribute iff the dark field is non-null at the read, with the
\* field's value, and never the keys of the vibration details.
C6_PresenceAttributes ==
    IsRead("presence", "Presence") =>
        LET attr == lastRead.attributes IN
        /\ "dark" \in DOMAIN attr <=> ReadDevice.dark # None
        /\ "dark" \in DOMAIN attr => attr["dark"] = ReadDevice.dark
        /\ DOMAIN attr \cap {"orientation", "tiltangle", "vibrationstrength"} = {}

\* A read of a presence wrapper while the sensor reports that it is not
\* dark, the flag having been null when the wrapper was made.
C6_Witness ==
    /\ IsRead("presence", "Presence")
    /\ ReadDevice.dark = Some(FALSE)
    /\ lastRead.attributes["dark"] = Some(FALSE)

====
